---- MODULE Spec2Model ----
(***************************************************************************)
(* Model of the pingmem hook scripts:                                      *)
(*   core/scripts/register-hooks.py        (settings.json registration)    *)
(*   core/hooks/github-issue-automation.py (PostToolUse error queueing)    *)
(*   core/hooks/pending-issues-check.py    (UserPromptSubmit reminder)     *)
(*   core/hooks/memory-update-posttooluse.py (PostToolUse wrapper)         *)
(***************************************************************************)
EXTENDS Integers, Sequences, FiniteSets, TLC

VARIABLES
    file,        \* ~/.claude/settings.json on disk: [kind, doc]
    settings,    \* register_hooks: the in-memory document
    added,       \* register_hooks: the added list
    pc,          \* register-hooks.py: "idle", "write" (merge done), "done"
    merged,      \* history: this run reached the write at line 165
    exitCode,    \* register-hooks.py: exit status (-1 while running)
    run,         \* which run of the CLI this is: "none", "first", "second"
    fileAtStart, \* history: the file as the current run found it
    firstOk,     \* history: the first run exited 0
    config,      \* .memories/issue-tracking/config.json
    queue,       \* .memories/issue-tracking/pending-issues.json: [kind, items]
    queue0,      \* history: pending-issues.json before the first hook ran
    log,         \* .memories/issue-tracking/logs/detections.log
    hpc,         \* github-issue-automation.py: position of each process
    herr,        \* queue_issue: error_context of each process
    hpending,    \* queue_issue: the local list `pending` of each process
    hloaded,     \* history: what load_pending_issues returned to the process
    hstale,      \* the file was written by another process since this one opened it
    hwrote,      \* history: what the running call has written: "nothing", "queue"
    hexit,       \* exit status of each github-issue-automation.py process
    hdup,        \* history: the process's last call returned at line 133
    launches,    \* hook processes started so far
    overlap,     \* history: two queue_issue calls have run at the same time
    cleared,     \* history: the queue file was deleted
    checkExit,   \* exit status of pending-issues-check.py (-1: not run)
    reminded,    \* pending-issues-check.py: issues printed in the reminder
    memExit,     \* exit status of memory-update-posttooluse.py (-1: not run)
    memCalled    \* memory-update-posttooluse.py: the node script was started

regVars == <<file, settings, added, pc, merged, exitCode, run, fileAtStart,
             firstOk>>

hookVars == <<config, queue, queue0, log, hpc, herr, hpending, hloaded,
              hstale, hwrote, hexit, hdup, launches, overlap, cleared,
              checkExit, reminded, memExit, memCalled>>

vars == <<regVars, hookVars>>

----------------------------------------------------------------------------
(* Bounds of the settings documents the runs are checked on.               *)

\* matcher-group entries in the whole document before the first run
MaxGroups == 1
\* hook entries in the whole document before the first run
MaxHooks == 3
\* github-issue-automation.py processes started in one behaviour
MaxLaunches == 2

----------------------------------------------------------------------------
(* The settings document.                                                  *)

memory_hook == "python3 ~/.claude/hooks/memory-update-posttooluse.py"
github_hook == "python3 ~/.claude/hooks/github-issue-automation.py"
pending_hook == "python3 ~/.claude/hooks/pending-issues-check.py"

WriteMatcher == "Write|Edit|MultiEdit"
CatchAll == ".*"

Cats == {"PostToolUse", "UserPromptSubmit"}

\* what a pre-existing document may hold
Matchers == {WriteMatcher, CatchAll, "Bash"}
Commands == {memory_hook, github_hook, pending_hook}

\* a hook entry as register_hooks writes it
NewHook(cmd, t) ==
    [type |-> "command", command |-> cmd, timeout |-> t, note |-> ""]

\* a hook entry found in the file: its own timeout and an unknown field
OldHook(cmd) ==
    [type |-> "command", command |-> cmd, timeout |-> 9, note |-> "keep"]

\* a matcher-group entry that is a bare string
BareEntry ==
    [kind |-> "str", matcher |-> "", hasHooks |-> FALSE, hooks |-> <<>>,
     note |-> ""]

\* a matcher-group entry that is a mapping; hasHooks: it has a 'hooks' key
MapEntry(m, hh, hs, n) ==
    [kind |-> "map", matcher |-> m, hasHooks |-> hh, hooks |-> hs, note |-> n]

NoCat == [present |-> FALSE, groups |-> <<>>]

\* {"comment": "do not touch"}: no 'hooks' key
EmptyDoc ==
    [comment |-> "do not touch", hasHooks |-> FALSE, stop |-> "",
     cats |-> [c \in Cats |-> NoCat]]

RECURSIVE SumHooks(_)
SumHooks(gs) ==
    IF gs = <<>> THEN 0 ELSE Len(Head(gs).hooks) + SumHooks(Tail(gs))

TotalGroups(d) ==
    Len(d.cats["PostToolUse"].groups) + Len(d.cats["UserPromptSubmit"].groups)

TotalHooks(d) ==
    SumHooks(d.cats["PostToolUse"].groups)
        + SumHooks(d.cats["UserPromptSubmit"].groups)

\* a search that never finds the group
FirstWith_Never(gs, m) == 0

\* index of the first entry the loop `for hook_entry in ...` stops at, 0 if none
FirstWith(gs, m) ==
    IF \E i \in 1..Len(gs) : gs[i].matcher = m
    THEN CHOOSE i \in 1..Len(gs) :
             /\ gs[i].matcher = m
             /\ \A j \in 1..(i - 1) : gs[j].matcher # m
    ELSE 0

----------------------------------------------------------------------------
(* register_hooks, block by block.  A block yields [ok, doc, added]:       *)
(* ok = FALSE is an exception raised inside the try.                       *)

\* lines 29-37
EnsureStructure(d) ==
    [d EXCEPT !.hasHooks = TRUE,
              !.cats = [c \in Cats |-> [present |-> TRUE,
                                        groups |-> d.cats[c].groups]]]

\* lines 44-52: hook_entry.get raises on an entry that is not a mapping
ScanOk(d) ==
    \A c \in Cats : \A i \in 1..Len(d.cats[c].groups) :
        d.cats[c].groups[i].kind = "map"

GroupCommands(g) == {g.hooks[j].command : j \in 1..Len(g.hooks)}

CatCommands(gs) == UNION {GroupCommands(gs[i]) : i \in 1..Len(gs)}

ExistingCommands(d) ==
    CatCommands(d.cats["PostToolUse"].groups)
        \cup CatCommands(d.cats["UserPromptSubmit"].groups)

\* an assignment in place of the append
AppendHook_Replace(d, c, i, h) ==
    [d EXCEPT !.cats[c].groups[i].hooks = <<h>>]

\* hook_entry['hooks'].append(h) on entry i of category c
AppendHook(d, c, i, h) ==
    [d EXCEPT !.cats[c].groups[i].hooks = Append(@, h)]

\* settings['hooks'][c].append({"matcher": m, "hooks": hs})
AppendGroup(d, c, m, hs) ==
    [d EXCEPT !.cats[c].groups = Append(@, MapEntry(m, TRUE, hs, ""))]

Raised(d) == [ok |-> FALSE, doc |-> d, added |-> <<>>]
Done(d, a) == [ok |-> TRUE, doc |-> d, added |-> a]

MemoryDesc == "memory-update-posttooluse.py (PostToolUse)"
GithubDesc == "github-issue-automation.py (PostToolUse)"
CatchallDesc == "github-issue-automation.py (PostToolUse catchall)"
PendingDesc == "pending-issues-check.py (UserPromptSubmit)"

\* lines 57-107
Block1(d, ex) ==
    IF memory_hook \in ex /\ github_hook \in ex
    THEN Done(d, <<>>)
    ELSE LET gs == d.cats["PostToolUse"].groups
             i == FirstWith(gs, WriteMatcher)
             needM == memory_hook \notin ex
             needG == github_hook \notin ex
             descs == (IF needM THEN <<MemoryDesc>> ELSE <<>>)
                        \o (IF needG THEN <<GithubDesc>> ELSE <<>>)
             hs == (IF needM THEN <<NewHook(memory_hook, 5)>> ELSE <<>>)
                     \o (IF needG THEN <<NewHook(github_hook, 5)>> ELSE <<>>)
         IN  IF i > 0
             THEN IF ~gs[i].hasHooks
                  THEN Raised(d)
                  ELSE LET d1 == IF needM
                                 THEN AppendHook(d, "PostToolUse", i,
                                                 NewHook(memory_hook, 5))
                                 ELSE d
                           d2 == IF needG
                                 THEN AppendHook(d1, "PostToolUse", i,
                                                 NewHook(github_hook, 5))
                                 ELSE d1
                       IN  Done(d2, descs)
             ELSE Done(AppendGroup(d, "PostToolUse", WriteMatcher, hs), descs)

\* line 110: 'github-issue' in cmd, over the commands of the model
HasGithubIssue(cmd) == cmd = github_hook

\* lines 109-135
Block2(d, ex) ==
    IF github_hook \in {cmd \in ex : HasGithubIssue(cmd)}
    THEN Done(d, <<>>)
    ELSE LET gs == d.cats["PostToolUse"].groups
             i == FirstWith(gs, CatchAll)
         IN  IF i > 0
             THEN LET has_github ==
                          \E j \in 1..Len(gs[i].hooks) :
                              gs[i].hooks[j].command = github_hook
                  IN  IF has_github
                      THEN Done(d, <<>>)
                      ELSE IF ~gs[i].hasHooks
                           THEN Raised(d)
                           ELSE Done(AppendHook(d, "PostToolUse", i,
                                                NewHook(github_hook, 5)),
                                     <<CatchallDesc>>)
             ELSE Done(AppendGroup(d, "PostToolUse", CatchAll,
                                   <<NewHook(github_hook, 5)>>),
                       <<CatchallDesc>>)

\* the block without its `not in existing_commands` guard
Block3_Unguarded(d, ex) ==
    LET gs == d.cats["UserPromptSubmit"].groups
        i == FirstWith(gs, CatchAll)
    IN  IF i > 0
        THEN IF ~gs[i].hasHooks
             THEN Raised(d)
             ELSE Done(AppendHook(d, "UserPromptSubmit", i,
                                  NewHook(pending_hook, 3)),
                       <<PendingDesc>>)
        ELSE Done(AppendGroup(d, "UserPromptSubmit", CatchAll,
                              <<NewHook(pending_hook, 3)>>),
                  <<PendingDesc>>)

\* lines 137-162
Block3(d, ex) ==
    IF pending_hook \in ex
    THEN Done(d, <<>>)
    ELSE LET gs == d.cats["UserPromptSubmit"].groups
             i == FirstWith(gs, CatchAll)
         IN  IF i > 0
             THEN IF ~gs[i].hasHooks
                  THEN Raised(d)
                  ELSE Done(AppendHook(d, "UserPromptSubmit", i,
                                       NewHook(pending_hook, 3)),
                            <<PendingDesc>>)
             ELSE Done(AppendGroup(d, "UserPromptSubmit", CatchAll,
                                   <<NewHook(pending_hook, 3)>>),
                       <<PendingDesc>>)


\* lines 24-162: the body of the try up to the write.  The blocks run in
\* order on the same settings object; the first exception ends the merge.
RegisterMerge(d0) ==
    LET s == EnsureStructure(d0)
    IN  IF ~ScanOk(s)
        THEN Raised(s)
        ELSE LET ex == ExistingCommands(s)
                 r1 == Block1(s, ex)
                 r2 == Block2(r1.doc, ex)
                 r3 == Block3(r2.doc, ex)
             IN  IF ~r1.ok THEN r1
                 ELSE IF ~r2.ok
                      THEN [r2 EXCEPT !.added = r1.added]
                      ELSE IF ~r3.ok
                           THEN [r3 EXCEPT !.added = r1.added \o r2.added]
                           ELSE Done(r3.doc, r1.added \o r2.added \o r3.added)

\* lines 185-194: main turns the return value into the exit status
MainExit(returned) == IF returned THEN 0 ELSE 1

----------------------------------------------------------------------------
(* The settings file before the first run: whatever the user, Claude Code  *)
(* or another installer left there.                                        *)

InitialFile == [kind |-> "doc", doc |-> EmptyDoc]

Editable == pc = "idle" /\ run = "none" /\ file.kind = "doc"

EditFrame ==
    UNCHANGED <<settings, added, pc, merged, exitCode, run, fileAtStart,
                firstOk, hookVars>>

\* the file is absent, or is not JSON
EditBreakFile ==
    /\ Editable
    /\ file = InitialFile
    /\ \E k \in {"missing", "badjson"} : file' = [file EXCEPT !.kind = k]
    /\ EditFrame

\* a 'hooks' object with another event category in it
EditHooksKey ==
    /\ Editable
    /\ ~file.doc.hasHooks
    /\ file' = [file EXCEPT !.doc.hasHooks = TRUE, !.doc.stop = "stop-hooks"]
    /\ EditFrame

EditCategory ==
    /\ Editable
    /\ file.doc.hasHooks
    /\ \E c \in Cats :
          /\ ~file.doc.cats[c].present
          /\ file' = [file EXCEPT !.doc.cats[c].present = TRUE]
    /\ EditFrame

\* what a matcher-group entry of the file may be, before its hooks are filled
EntryShapes ==
    {BareEntry}
        \cup {MapEntry(m, TRUE, <<>>, "keep") : m \in Matchers}
        \cup {MapEntry(m, FALSE, <<>>, "keep") : m \in {WriteMatcher, CatchAll}}

EditAddGroup ==
    /\ Editable
    /\ TotalGroups(file.doc) < MaxGroups
    /\ \E c \in Cats :
          /\ file.doc.cats[c].present
          /\ \E e \in EntryShapes :
                file' = [file EXCEPT !.doc.cats[c].groups = Append(@, e)]
    /\ EditFrame

EditAddHook ==
    /\ Editable
    /\ TotalHooks(file.doc) < MaxHooks
    /\ \E c \in Cats : \E i \in 1..Len(file.doc.cats[c].groups) :
          /\ file.doc.cats[c].groups[i].hasHooks
          /\ \E cmd \in Commands :
                file' = [file EXCEPT !.doc.cats[c].groups[i].hooks =
                                         Append(@, OldHook(cmd))]
    /\ EditFrame

----------------------------------------------------------------------------
(* One run of register-hooks.py: main calls register_hooks, which reads    *)
(* and merges in memory (Merge), then writes (WriteSettings).  The CLI is  *)
(* run on the file as it is, and once more after a run that succeeded.     *)

\* a merge that saves what it has, whether or not it got to the end
FileAfterMerge_Eager(f, d) ==
    IF f.kind = "doc" THEN [kind |-> "doc", doc |-> d] ELSE f

\* lines 24-162 never open the file for writing
FileAfterMerge(f, d) == f

\* lines 15-162 and, when register_hooks returns False, lines 177-194
Merge ==
    /\ \/ pc = "idle" /\ run = "none"
       \/ pc = "done" /\ run = "first" /\ firstOk
    /\ run' = IF run = "none" THEN "first" ELSE "second"
    /\ fileAtStart' = file
    /\ IF file.kind # "doc"
       THEN /\ settings' = EmptyDoc
            /\ added' = <<>>
            /\ merged' = FALSE
            /\ pc' = "done"
            /\ exitCode' = MainExit(FALSE)
       ELSE LET r == RegisterMerge(file.doc)
            IN  /\ settings' = r.doc
                /\ added' = r.added
                /\ merged' = r.ok
                /\ IF r.ok
                   THEN pc' = "write" /\ exitCode' = -1
                   ELSE pc' = "done" /\ exitCode' = MainExit(FALSE)
    /\ firstOk' = IF run = "none" THEN FALSE ELSE firstOk
    /\ file' = FileAfterMerge(file, settings')
    /\ UNCHANGED hookVars

\* lines 164-175 and 189-191
WriteSettings ==
    /\ pc = "write"
    /\ file' = [kind |-> "doc", doc |-> settings]
    /\ pc' = "done"
    /\ exitCode' = MainExit(TRUE)
    /\ firstOk' = IF run = "first" THEN TRUE ELSE firstOk
    /\ UNCHANGED <<settings, added, merged, run, fileAtStart, hookVars>>

----------------------------------------------------------------------------
(* github-issue-automation.py: detect_error and queue_issue.               *)

Procs == {"p1", "p2"}

\* a key an entry of pending-issues.json does not have
NoKey == "<no key>"

\* an absent, empty, truncated or otherwise unparseable pending-issues.json
\* has kind "absent" or "bad"; a parseable one is a list of entries
AbsentQueue == [kind |-> "absent", items |-> <<>>]
BadQueue == [kind |-> "bad", items |-> <<>>]
ListQueue(items) == [kind |-> "list", items |-> items]

Entry(f, sev, cat, at) ==
    [file |-> f, severity |-> sev, category |-> cat, detected_at |-> at]

NoError == Entry("", "", "", 0)

\* Error texts are sets of words; what the regular expressions and the
\* substring tests of detect_error see in each word:
\* lines 66-74: re.search of an error pattern
PatternHit(w) == w \in {"Error", "TypeError", "SyntaxError", "Exception"}
\* line 89: 'TS' in error_text or 'type' in error_text.lower()
TypeHit(w) == w \in {"TypeError"}
\* line 92: 'syntax' in error_text.lower()
SyntaxHit(w) == w \in {"SyntaxError"}
\* line 95: 'exception' or 'fatal' in error_text.lower()
RuntimeHit(w) == w \in {"Exception", "fatal"}

Texts == {{}, {"fatal"}, {"Error"}, {"TypeError"}}
Paths == {"a.ts", ""}

\* CLAUDE_HOOK_INPUT: not JSON, or a tool event with its result text
HookInputs ==
    {[kind |-> "malformed", text |-> {}, path |-> ""]}
        \cup {[kind |-> "event", text |-> t, path |-> p] :
                 t \in Texts, p \in Paths}

\* lines 52-107; NoError is the None it returns
detect_error(text, path, at) ==
    IF text = {} THEN NoError
    ELSE IF ~(\E w \in text : PatternHit(w)) THEN NoError
    ELSE LET file_path == IF path # "" THEN path ELSE "unknown"
         IN  IF \E w \in text : TypeHit(w)
             THEN Entry(file_path, "high", "type-error", at)
             ELSE IF \E w \in text : SyntaxHit(w)
                  THEN Entry(file_path, "high", "syntax-error", at)
                  ELSE IF \E w \in text : RuntimeHit(w)
                       THEN Entry(file_path, "critical", "runtime-error", at)
                       ELSE Entry(file_path, "medium", "unknown-error", at)

\* line 118
severity_order == <<"low", "medium", "high", "critical">>

InOrder(sev) == \E i \in 1..Len(severity_order) : severity_order[i] = sev

\* severity_order.index(sev), for a sev that is in the list
SeverityIndex(sev) ==
    CHOOSE i \in 1..Len(severity_order) : severity_order[i] = sev

\* config.json: absent, not JSON, or a mapping; threshold NoKey: no
\* 'auto_create_above', so the default 'high' applies
Configs ==
    {[kind |-> "absent", enabled |-> FALSE, threshold |-> NoKey],
     [kind |-> "bad", enabled |-> FALSE, threshold |-> NoKey],
     [kind |-> "json", enabled |-> FALSE, threshold |-> "medium"],
     [kind |-> "json", enabled |-> TRUE, threshold |-> NoKey],
     [kind |-> "json", enabled |-> TRUE, threshold |-> "medium"],
     [kind |-> "json", enabled |-> TRUE, threshold |-> "urgent"]}

\* line 117
Threshold(cfg) == IF cfg.threshold = NoKey THEN "high" ELSE cfg.threshold

\* lines 111-124: "queue" to go on to line 127, "return", or "raise"
ConfigGate(cfg, err) ==
    IF cfg.kind = "bad" THEN "raise"
    ELSE IF cfg.kind = "absent" \/ ~cfg.enabled THEN "return"
    ELSE IF ~InOrder(err.severity) \/ ~InOrder(Threshold(cfg)) THEN "raise"
    ELSE IF SeverityIndex(err.severity) < SeverityIndex(Threshold(cfg))
         THEN "return"
         ELSE "queue"

\* a check that never finds the error queued
IsDuplicate_Never(items, err) == FALSE

\* lines 130-133
IsDuplicate(items, err) ==
    \E i \in 1..Len(items) :
        /\ items[i].file = err.file
        /\ items[i].category = err.category

\* a queue that keeps only the newest error
AppendPending_Only(items, err) == <<err>>

\* line 136
AppendPending(items, err) == Append(items, err)

Active(p) == hpc[p] \in {"load", "save", "dump", "log"}

HookFrame ==
    UNCHANGED <<regVars, config, queue0, checkExit, reminded, memExit,
                memCalled>>

\* main, lines 148-161, and queue_issue up to line 124
HookStart(p) ==
    /\ hpc[p] \in {"idle", "exit"}
    /\ launches < MaxLaunches
    /\ launches' = launches + 1
    /\ \E in \in HookInputs :
          LET err == IF in.kind = "malformed"
                     THEN NoError
                     ELSE detect_error(in.text, in.path, launches + 1)
              go == in.kind = "event" /\ err # NoError
                        /\ ConfigGate(config, err) = "queue"
          IN  /\ herr' = [herr EXCEPT ![p] = IF go THEN err ELSE NoError]
              /\ hpc' = [hpc EXCEPT ![p] = IF go THEN "load" ELSE "exit"]
              /\ hexit' = [hexit EXCEPT ![p] = IF go THEN -1 ELSE 0]
              /\ overlap' = (overlap \/ (go /\ \E q \in Procs \ {p} : Active(q)))
    /\ hpending' = [hpending EXCEPT ![p] = <<>>]
    /\ hloaded' = [hloaded EXCEPT ![p] = <<>>]
    /\ hstale' = [hstale EXCEPT ![p] = FALSE]
    /\ hwrote' = [hwrote EXCEPT ![p] = "nothing"]
    /\ hdup' = [hdup EXCEPT ![p] = FALSE]
    /\ UNCHANGED <<queue, log, cleared>>
    /\ HookFrame

\* lines 127-136: load_pending_issues, the duplicate check, the append
LoadPending(p) ==
    /\ hpc[p] = "load"
    /\ IF queue.kind = "bad" \/ IsDuplicate(queue.items, herr[p])
       THEN /\ hpc' = [hpc EXCEPT ![p] = "exit"]
            /\ hexit' = [hexit EXCEPT ![p] = 0]
            /\ herr' = [herr EXCEPT ![p] = NoError]
            /\ hdup' = [hdup EXCEPT ![p] = queue.kind # "bad"]
            /\ UNCHANGED <<hpending, hloaded>>
       ELSE /\ hpc' = [hpc EXCEPT ![p] = "save"]
            /\ hloaded' = [hloaded EXCEPT ![p] = queue.items]
            /\ hpending' = [hpending EXCEPT ![p] =
                                AppendPending(queue.items, herr[p])]
            /\ UNCHANGED <<hexit, herr, hdup>>
    /\ UNCHANGED <<queue, log, hstale, hwrote, launches, overlap, cleared>>
    /\ HookFrame

\* lines 48-49: open(PENDING_ISSUES_FILE, 'w') empties the file
SaveTruncate(p) ==
    /\ hpc[p] = "save"
    /\ queue' = BadQueue
    /\ hstale' = [hstale EXCEPT ![p] = FALSE]
    /\ hwrote' = [hwrote EXCEPT ![p] = "queue"]
    /\ hpc' = [hpc EXCEPT ![p] = "dump"]
    /\ UNCHANGED <<log, herr, hpending, hloaded, hexit, hdup, launches,
                   overlap, cleared>>
    /\ HookFrame

\* what json.dump leaves in the file: the list, or, when another process
\* wrote a longer text since the open, the list followed by the rest of that
\* text, which is not JSON
DumpResults(items, stale) ==
    IF stale THEN {ListQueue(items), BadQueue} ELSE {ListQueue(items)}

\* line 50
SaveDump(p) ==
    /\ hpc[p] = "dump"
    /\ queue' \in DumpResults(hpending[p], hstale[p])
    /\ hstale' = [q \in Procs |->
                     IF q # p /\ hpc[q] = "dump" THEN TRUE ELSE hstale[q]]
    /\ hpc' = [hpc EXCEPT ![p] = "log"]
    /\ UNCHANGED <<log, herr, hpending, hloaded, hwrote, hexit, hdup,
                   launches, overlap, cleared>>
    /\ HookFrame

\* lines 139-144 and 164
LogDetection(p) ==
    /\ hpc[p] = "log"
    /\ log' = Append(log, herr[p])
    /\ hpc' = [hpc EXCEPT ![p] = "exit"]
    /\ hexit' = [hexit EXCEPT ![p] = 0]
    /\ herr' = [herr EXCEPT ![p] = NoError]
    /\ hpending' = [hpending EXCEPT ![p] = <<>>]
    /\ hloaded' = [hloaded EXCEPT ![p] = <<>>]
    /\ hstale' = [hstale EXCEPT ![p] = FALSE]
    /\ hwrote' = [hwrote EXCEPT ![p] = "nothing"]
    /\ UNCHANGED <<queue, hdup, launches, overlap, cleared>>
    /\ HookFrame

----------------------------------------------------------------------------
(* pending-issues-check.py.                                                *)

\* lines 21-30
load_pending_issues(q) == IF q.kind = "list" THEN q.items ELSE <<>>

\* lines 32-46: issue['severity'], issue['category'], ... raise KeyError
\* on an entry without the key
FormatRaises(issue) ==
    \/ issue.severity = NoKey
    \/ issue.category = NoKey
    \/ issue.file = NoKey

\* lines 48-72: the exit status; an uncaught exception ends Python with 1
CheckStatus(q) ==
    LET pending == load_pending_issues(q)
    IN  IF pending = <<>> THEN 0
        ELSE IF \E i \in 1..Len(pending) : FormatRaises(pending[i]) THEN 1
        ELSE 0

\* UserPromptSubmit: the user types between tool uses, when no PostToolUse
\* hook is running
CheckPending ==
    /\ \A p \in Procs : ~Active(p)
    /\ checkExit' = CheckStatus(queue)
    /\ reminded' = IF CheckStatus(queue) = 0
                   THEN Len(load_pending_issues(queue))
                   ELSE 0
    /\ UNCHANGED <<regVars, config, queue, queue0, log, hpc, herr, hpending,
                   hloaded, hstale, hwrote, hexit, hdup, launches,
                   overlap, cleared, memExit, memCalled>>

\* line 65 of the reminder: the queue is cleared by deleting the file
ClearQueue ==
    /\ queue.kind # "absent"
    /\ queue' = AbsentQueue
    /\ cleared' = TRUE
    /\ UNCHANGED <<regVars, config, queue0, log, hpc, herr, hpending,
                   hloaded, hstale, hwrote, hexit, hdup, launches, overlap,
                   checkExit, reminded, memExit, memCalled>>

----------------------------------------------------------------------------
(* memory-update-posttooluse.py.                                           *)

MemoryInputs ==
    {[kind |-> "malformed", tool |-> "", path |-> ""],
     [kind |-> "event", tool |-> "Write", path |-> "a.ts"],
     [kind |-> "event", tool |-> "Write", path |-> ""],
     [kind |-> "event", tool |-> "Bash", path |-> "a.ts"]}

\* subprocess.run: it returns (whatever node's status), raises
\* TimeoutExpired after 5 s, or raises FileNotFoundError without node
NodeOutcomes == {"returned", "timeout", "no-node"}

\* lines 17-51: whether the script gets as far as subprocess.run
ReachesNode(in, scriptFound) ==
    /\ in.kind = "event"
    /\ in.tool \in {"Write", "Edit", "MultiEdit", "NotebookEdit"}
    /\ in.path # ""
    /\ scriptFound

\* lines 14-68: every path ends in sys.exit(0)
MemoryStatus(in, scriptFound, outcome) == 0

RunMemoryHook ==
    /\ \E in \in MemoryInputs, found \in BOOLEAN :
          IF ReachesNode(in, found)
          THEN \E out \in NodeOutcomes :
                  /\ memExit' = MemoryStatus(in, found, out)
                  /\ memCalled' = out
          ELSE /\ memExit' = MemoryStatus(in, found, "not run")
               /\ memCalled' = "not run"
    /\ UNCHANGED <<regVars, config, queue, queue0, log, hpc, herr, hpending,
                   hloaded, hstale, hwrote, hexit, hdup, launches,
                   overlap, cleared, checkExit, reminded>>

----------------------------------------------------------------------------
(* The specifications.                                                     *)

InitReg ==
    /\ file = InitialFile
    /\ settings = EmptyDoc
    /\ added = <<>>
    /\ pc = "idle"
    /\ merged = FALSE
    /\ exitCode = -1
    /\ run = "none"
    /\ fileAtStart = InitialFile
    /\ firstOk = FALSE

\* pending-issues.json before the first hook runs: no two entries with the
\* same (file, category); entries written by hand may lack keys
InitialQueues ==
    {AbsentQueue, BadQueue, ListQueue(<<>>),
     ListQueue(<<Entry("a.ts", "high", "type-error", 0)>>),
     ListQueue(<<Entry("a.ts", NoKey, NoKey, 0)>>)}

InitHookProcs ==
    /\ log = <<>>
    /\ hpc = [p \in Procs |-> "idle"]
    /\ herr = [p \in Procs |-> NoError]
    /\ hpending = [p \in Procs |-> <<>>]
    /\ hloaded = [p \in Procs |-> <<>>]
    /\ hstale = [p \in Procs |-> FALSE]
    /\ hwrote = [p \in Procs |-> "nothing"]
    /\ hexit = [p \in Procs |-> -1]
    /\ hdup = [p \in Procs |-> FALSE]
    /\ launches = 0
    /\ overlap = FALSE
    /\ cleared = FALSE
    /\ checkExit = -1
    /\ reminded = 0
    /\ memExit = -1
    /\ memCalled = "not run"

\* the registration CLI, with no hook running
Init ==
    /\ InitReg
    /\ config = [kind |-> "absent", enabled |-> FALSE, threshold |-> NoKey]
    /\ queue = AbsentQueue
    /\ queue0 = AbsentQueue
    /\ InitHookProcs

Next ==
    \/ EditBreakFile
    \/ EditHooksKey
    \/ EditCategory
    \/ EditAddGroup
    \/ EditAddHook
    \/ Merge
    \/ WriteSettings

Spec == Init /\ [][Next]_vars

\* the hooks, on a project with any config and any queue
InitHooks ==
    /\ InitReg
    /\ config \in Configs
    /\ queue \in InitialQueues
    /\ queue0 = queue
    /\ InitHookProcs

\* the github-issue-automation.py processes and the queue file
NextQueue ==
    \/ \E p \in Procs : HookStart(p)
    \/ \E p \in Procs : LoadPending(p)
    \/ \E p \in Procs : SaveTruncate(p)
    \/ \E p \in Procs : SaveDump(p)
    \/ \E p \in Procs : LogDetection(p)
    \/ ClearQueue

SpecQueue == InitHooks /\ [][NextQueue]_vars

\* the three hook scripts
NextHooks ==
    \/ NextQueue
    \/ CheckPending
    \/ RunMemoryHook

SpecHooks == InitHooks /\ [][NextHooks]_vars

----------------------------------------------------------------------------
(* Properties of register-hooks.py.                                        *)

CountWith(gs, m) == Cardinality({i \in 1..Len(gs) : gs[i].matcher = m})

CountCmd(g, cmd) ==
    Cardinality({j \in 1..Len(g.hooks) : g.hooks[j].command = cmd})

\* the four bindings register_hooks is written to install
Desired ==
    {[cat |-> "PostToolUse", pattern |-> WriteMatcher, command |-> memory_hook],
     [cat |-> "PostToolUse", pattern |-> WriteMatcher, command |-> github_hook],
     [cat |-> "PostToolUse", pattern |-> CatchAll, command |-> github_hook],
     [cat |-> "UserPromptSubmit", pattern |-> CatchAll, command |-> pending_hook]}

RunSucceeded == pc = "done" /\ exitCode = 0

\* C1: idempotence.  A second run on the document a successful first run
\* wrote succeeds, adds nothing and writes a document equal to the one it read.
C1_Idempotent ==
    (run = "second" /\ pc = "done" /\ firstOk)
        => /\ exitCode = 0
           /\ added = <<>>
           /\ file = fileAtStart

\* a second run on a document in which the first run had found the github
\* hook in a group of UserPromptSubmit and to which it had added the memory
\* hook
C1_Witness ==
    /\ run = "second" /\ pc = "done" /\ firstOk
    /\ \E i \in 1..Len(fileAtStart.doc.cats["UserPromptSubmit"].groups) :
          \E j \in 1..Len(fileAtStart.doc.cats["UserPromptSubmit"].groups[i].hooks) :
              fileAtStart.doc.cats["UserPromptSubmit"].groups[i].hooks[j]
                  = OldHook(github_hook)
    /\ \E i \in 1..Len(fileAtStart.doc.cats["PostToolUse"].groups) :
          \E j \in 1..Len(fileAtStart.doc.cats["PostToolUse"].groups[i].hooks) :
              fileAtStart.doc.cats["PostToolUse"].groups[i].hooks[j]
                  = NewHook(memory_hook, 5)

\* at most one matcher group per pattern in each category, no command twice
\* in a group
WellFormed(d) ==
    \A c \in Cats :
        /\ \A m \in Matchers : CountWith(d.cats[c].groups, m) <= 1
        /\ \A i \in 1..Len(d.cats[c].groups) : \A cmd \in Commands :
               CountCmd(d.cats[c].groups[i], cmd) <= 1

Registered(d, b) ==
    LET gs == d.cats[b.cat].groups
    IN  /\ CountWith(gs, b.pattern) = 1
        /\ \A i \in 1..Len(gs) :
               gs[i].matcher = b.pattern => CountCmd(gs[i], b.command) = 1

\* C2: exactly-once registration.  After a successful run on a well-formed
\* document every desired binding has exactly one group with its pattern in
\* its category, holding its command exactly once.
C2_ExactlyOnce ==
    (RunSucceeded /\ run = "first" /\ WellFormed(fileAtStart.doc))
        => \A b \in Desired : Registered(file.doc, b)

HasBare(d) ==
    \E c \in Cats : \E i \in 1..Len(d.cats[c].groups) :
        d.cats[c].groups[i].kind = "str"

\* every entry that is a mapping has a 'hooks' list
ValidMaps(d) ==
    \A c \in Cats : \A i \in 1..Len(d.cats[c].groups) :
        d.cats[c].groups[i].kind = "map" => d.cats[c].groups[i].hasHooks

\* C3: malformed-entry tolerance.  A run on a document with a bare-string
\* matcher-group entry among valid ones is not aborted: it exits 0, keeps the
\* entries it found and has the three commands registered in what it wrote.
C3_BareEntrySkipped ==
    (pc = "done" /\ fileAtStart.kind = "doc" /\ HasBare(fileAtStart.doc)
        /\ ValidMaps(fileAtStart.doc))
        => /\ exitCode = 0
           /\ Commands \subseteq ExistingCommands(file.doc)
           /\ \A c \in Cats : Len(file.doc.cats[c].groups)
                                  >= Len(fileAtStart.doc.cats[c].groups)

IsPrefix(s, t) ==
    /\ Len(s) <= Len(t)
    /\ \A i \in 1..Len(s) : s[i] = t[i]

\* new differs from old only by appended groups and appended hook entries
\* (and by the keys 'hooks', 'PostToolUse', 'UserPromptSubmit' coming to exist)
Appended(old, new) ==
    /\ new.comment = old.comment
    /\ new.stop = old.stop
    /\ old.hasHooks => new.hasHooks
    /\ \A c \in Cats :
          LET og == old.cats[c].groups
              ng == new.cats[c].groups
          IN  /\ old.cats[c].present => new.cats[c].present
              /\ Len(og) <= Len(ng)
              /\ \A i \in 1..Len(og) :
                     /\ ng[i] = [og[i] EXCEPT !.hooks = ng[i].hooks]
                     /\ IsPrefix(og[i].hooks, ng[i].hooks)

\* C4: frame.  Whatever a run holds in memory or has on disk differs from
\* the document it read only by appended groups and appended hook entries.
C4_AppendOnly ==
    /\ pc = "write" => Appended(fileAtStart.doc, settings)
    /\ pc = "done" => /\ file.kind = fileAtStart.kind
                      /\ Appended(fileAtStart.doc, file.doc)

\* a run that appended to a group holding entries with an unknown field and
\* a timeout of their own, and appended a new group after it
C4_Witness ==
    /\ RunSucceeded
    /\ \E c \in Cats : \E i \in 1..Len(fileAtStart.doc.cats[c].groups) :
          /\ Len(fileAtStart.doc.cats[c].groups[i].hooks) > 1
          /\ Len(file.doc.cats[c].groups[i].hooks)
                 > Len(fileAtStart.doc.cats[c].groups[i].hooks)
          /\ Len(file.doc.cats[c].groups)
                 > Len(fileAtStart.doc.cats[c].groups)

\* the least index of a group with matcher m, 0 if there is none
LeastWith(gs, m) ==
    LET at == {i \in 1..Len(gs) : gs[i].matcher = m}
    IN  IF at = {} THEN 0 ELSE CHOOSE i \in at : \A j \in at : i <= j

\* the hook entries the run reports for pattern m of category c, in order
DescHook(desc) ==
    IF desc = MemoryDesc THEN NewHook(memory_hook, 5)
    ELSE IF desc = PendingDesc THEN NewHook(pending_hook, 3)
    ELSE NewHook(github_hook, 5)

DescTarget(desc) ==
    IF desc \in {MemoryDesc, GithubDesc}
    THEN <<"PostToolUse", WriteMatcher>>
    ELSE IF desc = CatchallDesc THEN <<"PostToolUse", CatchAll>>
    ELSE <<"UserPromptSubmit", CatchAll>>

RECURSIVE HooksFor(_, _)
HooksFor(ds, t) ==
    IF ds = <<>> THEN <<>>
    ELSE (IF DescTarget(Head(ds)) = t THEN <<DescHook(Head(ds))>> ELSE <<>>)
             \o HooksFor(Tail(ds), t)

Targets ==
    {<<"PostToolUse", WriteMatcher>>, <<"PostToolUse", CatchAll>>,
     <<"UserPromptSubmit", CatchAll>>}

Folded(old, new, ds) ==
    \A t \in Targets :
        LET og == old.cats[t[1]].groups
            ng == new.cats[t[1]].groups
            i == LeastWith(og, t[2])
            hs == HooksFor(ds, t)
        IN  /\ i > 0 =>
                 /\ CountWith(ng, t[2]) = CountWith(og, t[2])
                 /\ ng[i].hooks = og[i].hooks \o hs
            /\ (i = 0 /\ hs = <<>>) => CountWith(ng, t[2]) = 0
            /\ (i = 0 /\ hs # <<>>) =>
                 /\ CountWith(ng, t[2]) = 1
                 /\ ng[LeastWith(ng, t[2])].hooks = hs
            /\ hs \in {<<>>, <<NewHook(memory_hook, 5)>>,
                       <<NewHook(github_hook, 5)>>,
                       <<NewHook(pending_hook, 3)>>,
                       <<NewHook(memory_hook, 5), NewHook(github_hook, 5)>>}

C6_FailureAtomic ==
    /\ pc = "write" => (merged /\ file = fileAtStart)
    /\ pc = "done" =>
          /\ exitCode \in {0, 1}
          /\ exitCode = 1 => file = fileAtStart
          /\ merged <=> exitCode = 0
          /\ (fileAtStart.kind # "doc" \/ ~ScanOk(fileAtStart.doc))
                 => exitCode = 1
          /\ exitCode = 0 => file = [kind |-> "doc", doc |-> settings]

\* a run that failed in a later block after an earlier block had already
\* changed the settings in memory
C6_Witness ==
    /\ pc = "done" /\ exitCode = 1
    /\ fileAtStart.kind = "doc" /\ ScanOk(fileAtStart.doc)
    /\ settings # EnsureStructure(fileAtStart.doc)
    /\ file = fileAtStart

\* C7: the added list reports exactly what changed.  In a successful run
\* added has one description per appended hook entry, and it is empty
\* exactly when the document written equals the document read.
C7_AddedExact ==
    RunSucceeded
        => /\ Len(added) = TotalHooks(file.doc) - TotalHooks(fileAtStart.doc)
           /\ added = <<>> <=> file = fileAtStart

----------------------------------------------------------------------------
(* Properties of the hook scripts.                                         *)

\* C8: silent exit.  Every run of each of the three hook scripts ends with
\* exit status 0, whatever its input and whatever is on disk.
C8_SilentExit ==
    /\ \A p \in Procs : hexit[p] \in {-1, 0}
    /\ checkExit \in {-1, 0}
    /\ memExit \in {-1, 0}

Quiescent == \A p \in Procs : ~Active(p)

SamePair(a, b) == a.file = b.file /\ a.category = b.category

\* C9: without protection against concurrent writers a logged issue can go
\* missing; but as long as the queue_issue calls have run one after another
\* and nobody deleted the file, the queue is what it was at the start followed
\* by every logged issue, in the order they were logged.
C9_SequentialAppendOnly ==
    (~overlap /\ ~cleared /\ Quiescent)
        => IF log = <<>>
           THEN queue = queue0
           ELSE queue = ListQueue(queue0.items \o log)

\* two interleaved calls, nothing cleared: the file is a well-formed list,
\* and an issue that was saved and logged is not in it
C9_Witness ==
    /\ overlap /\ ~cleared /\ Quiescent
    /\ queue.kind = "list"
    /\ \E i \in 1..Len(log) :
          \A j \in 1..Len(queue.items) : ~SamePair(queue.items[j], log[i])

NoDupPairs(items) ==
    \A i, j \in 1..Len(items) : SamePair(items[i], items[j]) => i = j

\* C10: de-duplication.  No version of pending-issues.json holds two entries
\* with the same (file, category); a call that found its error's pair in the
\* queue it loaded writes nothing; a call that writes holds the queue it
\* loaded plus its one error, detection is enabled and the error's severity is
\* at or above the threshold.
C10_NoDuplicates ==
    /\ queue.kind = "list" => NoDupPairs(queue.items)
    /\ \A i \in 1..Len(log) :
          /\ config.enabled
          /\ SeverityIndex(log[i].severity) >= SeverityIndex(Threshold(config))
    /\ \A p \in Procs :
          /\ hdup[p] => (hpc[p] = "exit" /\ hwrote[p] = "nothing")
          /\ hwrote[p] # "nothing" => hpc[p] \in {"dump", "log"}
          /\ hpc[p] \in {"save", "dump", "log"} =>
                /\ \A i \in 1..Len(hloaded[p]) :
                       ~SamePair(hloaded[p][i], herr[p])
                /\ hpending[p] = hloaded[p] \o <<herr[p]>>
                /\ config.kind = "json" /\ config.enabled
                /\ SeverityIndex(herr[p].severity)
                       >= SeverityIndex(Threshold(config))

\* a call returned on a duplicate of an entry an earlier call had queued
C10_Witness ==
    /\ \E p \in Procs : hdup[p]
    /\ queue.kind = "list" /\ log # <<>>
    /\ queue = ListQueue(queue0.items \o log)

====
